---- MODULE Spec2Model ----
(***************************************************************************)
(* mkpy: rule registry, dependency-graph builder and threaded scheduler    *)
(* (src/mkpy/make.py).                                                      *)
(*                                                                          *)
(* Names are sequences of characters.  A rule's matcher is a sequence of    *)
(* tokens, each a literal character or the capture group (at most one      *)
(* group per pattern); a template is a sequence of tokens, each a literal   *)
(* character or the positional field {0}.                                   *)
(***************************************************************************)
EXTENDS Naturals, Sequences, FiniteSets, TLC

VARIABLES
    rules,                               \* make.py:70   the rule registry
    files,                               \* the filesystem: existing path -> st_mtime
    target_name,                         \* run_make's goal
    job_count,                           \* run_make's job count
    main_pc,                             \* position of the thread running run_make
    graph,                               \* make.py:293  result of generate_dependency_graph
    run_result,                          \* what run_make returned or raised
    target_states,                       \* make.py:203
    dependency_graph_lock,               \* make.py:226  holder of the lock, 0 when free
    has_any_worker_thrown_an_exception,  \* make.py:227
    worker_mkpy_exception,               \* make.py:228  << >> is None
    pc,                                  \* position of each worker thread
    next_node,                           \* worker_thread's local next_node
    exc,                                 \* the exception a worker thread is dying with
    history                              \* record of what happened in the run (for the properties)

vars == <<rules, files, target_name, job_count, main_pc, graph, run_result,
          target_states, dependency_graph_lock, has_any_worker_thrown_an_exception,
          worker_mkpy_exception, pc, next_node, exc, history>>

-----------------------------------------------------------------------------
(* Bounds of the model *)

\* workers started by run_make: job_count ranges over 1..MaxJobs
MaxJobs == 2

\* depth of generate_dependency_graph's recursion before the interpreter
\* gives up with RecursionError
MaxDepth == 6

\* st_mtime of the files that exist before the run ranges over 1..MaxInitMtime
MaxInitMtime == 2

\* rules registered before the graph is built, where the registry varies freely
MaxRules == 2

-----------------------------------------------------------------------------
(* Patterns, templates and names *)

Group == "(.*)"
Field == "{0}"

RECURSIVE IndexOf(_, _, _)
\* first position >= i of token t in sequence s, 0 when there is none
IndexOf(s, t, i) ==
    IF i > Len(s) THEN 0
    ELSE IF s[i] = t THEN i
    ELSE IndexOf(s, t, i + 1)

\* re.Pattern.fullmatch: << >> when the name does not match, else <<groups>>
\* where groups is the tuple match.groups()
fullmatch(matcher, name) ==
    LET g == IndexOf(matcher, Group, 1) IN
    IF g = 0
    THEN IF matcher = name THEN << << >> >> ELSE << >>
    ELSE LET pre  == SubSeq(matcher, 1, g - 1)
             post == SubSeq(matcher, g + 1, Len(matcher))
             n    == Len(name)
         IN  IF /\ n >= Len(pre) + Len(post)
                /\ SubSeq(name, 1, Len(pre)) = pre
                /\ SubSeq(name, n - Len(post) + 1, n) = post
             THEN << << SubSeq(name, Len(pre) + 1, n - Len(post)) >> >>
             ELSE << >>

RECURSIVE format(_, _)
\* str.format(*groups): <<"ok", name>> or <<"IndexError">> when the template
\* has a field and the match has no group
format(template, groups) ==
    IF template = << >> THEN <<"ok", << >> >>
    ELSE LET rest == format(Tail(template), groups) IN
         IF rest[1] # "ok" THEN rest
         ELSE IF Head(template) = Field
              THEN IF Len(groups) = 0 THEN <<"IndexError">>
                   ELSE <<"ok", groups[1] \o rest[2]>>
              ELSE <<"ok", <<Head(template)>> \o rest[2]>>

\* Path(name).exists() in filesystem fs
PathExists(fs, name) == name \in DOMAIN fs

-----------------------------------------------------------------------------
(* Graph builder: make.py:129-186 *)

\* Python's None, and an optional value <<v>>
None == << >>

\* class Rule / class Requirements (make.py:17-26); the recipe is what the
\* registered callable does when it is called
Rule(matcher, recipe, depends, prerequisites, is_phony) ==
    [matcher |-> matcher, recipe |-> recipe,
     requirements |-> [depends |-> depends, prerequisites |-> prerequisites,
                       is_phony |-> is_phony]]

\* class Node (make.py:29-35)
Node(name, is_phony, is_prerequisite, recipe, depends, prerequisites) ==
    [name |-> name, is_phony |-> is_phony, is_prerequisite |-> is_prerequisite,
     recipe |-> recipe, depends |-> depends, prerequisites |-> prerequisites]

\* An exception leaving a call, and a value returned by it.  The field
\* expanded_ancestor records whether, during the call, a template expanded to
\* the name of a target on the chain of calls being resolved (the goal included).
Raise(kind, args, expanded_ancestor) ==
    [kind |-> kind, value |-> args, expanded_ancestor |-> expanded_ancestor]

Return(kind, value, expanded_ancestor) ==
    [kind |-> kind, value |-> value, expanded_ancestor |-> expanded_ancestor]

Also(result, expanded_ancestor) ==
    [result EXCEPT !.expanded_ancestor = @ \/ expanded_ancestor]

\* a membership test that finds no ancestor
InSatisfiedTargets_Never(depend_name, satisfied_targets) == FALSE

\* make.py:145  depend_name in satisfied_targets
InSatisfiedTargets(depend_name, satisfied_targets) ==
    depend_name \in satisfied_targets

\* a loop in which a later rule replaces the node of an earlier one
AlreadyResolved_Ignored(top_level) == FALSE

\* make.py:157  top_level is not None
AlreadyResolved(top_level) == top_level # None

RECURSIVE generate_dependency_graph(_, _, _, _)
RECURSIVE list_subgraphs(_, _, _, _, _, _)
RECURSIVE rule_loop(_, _, _, _, _, _, _, _)

\* make.py:143-150; depth is the number of calls of generate_dependency_graph
\* on the stack
get_subgraph(is_prerequisite, dependency, groups, target, satisfied_targets, depth) ==
    LET formatted == format(dependency, groups) IN
    IF formatted[1] # "ok" THEN Raise("IndexError", << >>, FALSE)
    ELSE LET depend_name == formatted[2]
             on_chain    == depend_name \in satisfied_targets \cup {target_name}
         IN  IF InSatisfiedTargets(depend_name, satisfied_targets)
             THEN Raise("CircularDependencyException", <<target, depend_name>>, on_chain)
             ELSE Also(generate_dependency_graph(
                           depend_name, satisfied_targets \cup {depend_name},
                           is_prerequisite, depth + 1),
                       on_chain)

\* list(map(partial(get_subgraph, is_prerequisite), templates)): the nodes in
\* order, or the first exception raised (make.py:154-155, 165-166)
list_subgraphs(is_prerequisite, templates, groups, target, satisfied_targets, depth) ==
    IF templates = << >> THEN Return("list", << >>, FALSE)
    ELSE LET first == get_subgraph(is_prerequisite, Head(templates), groups,
                                   target, satisfied_targets, depth)
         IN  IF first.kind # "Node" THEN first
             ELSE LET rest == list_subgraphs(is_prerequisite, Tail(templates),
                                             groups, target, satisfied_targets, depth)
                  IN  IF rest.kind # "list" THEN Also(rest, first.expanded_ancestor)
                      ELSE Return("list", <<first.value>> \o rest.value,
                                  first.expanded_ancestor \/ rest.expanded_ancestor)

\* prerequisites that are resolved as depends are
PrerequisiteEdge_Untagged == FALSE

\* make.py:155  partial(get_subgraph, True)
PrerequisiteEdge == TRUE

\* make.py:160-167  Node(..., list(depends), list(prerequisites)): the
\* subgraphs of one matching rule are built here, depends before prerequisites
resolve_rule(rule, groups, target, satisfied_targets, is_prerequisite, depth) ==
    LET requires == rule.requirements
        depends  == list_subgraphs(FALSE, requires.depends, groups, target,
                                   satisfied_targets, depth)
    IN  IF depends.kind # "list" THEN depends
        ELSE LET prerequisites == list_subgraphs(PrerequisiteEdge, requires.prerequisites,
                                                 groups, target, satisfied_targets,
                                                 depth)
             IN  IF prerequisites.kind # "list"
                 THEN Also(prerequisites, depends.expanded_ancestor)
                 ELSE Return("Node",
                             Node(target, requires.is_phony, is_prerequisite,
                                  rule.recipe, depends.value, prerequisites.value),
                             depends.expanded_ancestor
                                 \/ prerequisites.expanded_ancestor)

\* a fallback that is taken whatever the rules gave
NoRuleResolved_Always(top_level) == TRUE

\* make.py:171  if top_level is None
NoRuleResolved(top_level) == top_level = None

\* make.py:171-186  after the loop
after_rules(top_level, last_missing_target, seen, target, is_prerequisite) ==
    IF NoRuleResolved(top_level)
    THEN IF ~PathExists(files, target)
         THEN IF last_missing_target # None
              THEN Raise("MissingTargetException", last_missing_target[1], seen)
              ELSE Raise("MissingTargetException", <<target>>, seen)
         ELSE Return("Node",
                     Node(target, FALSE, is_prerequisite, "source_file_recipe",
                          << >>, << >>),
                     seen)
    ELSE Return("Node", top_level[1], seen)

\* make.py:140-169  the loop over the rules, from rule i on
rule_loop(i, top_level, last_missing_target, seen, target, satisfied_targets, is_prerequisite, depth) ==
    IF i > Len(rules)
    THEN after_rules(top_level, last_missing_target, seen, target, is_prerequisite)
    ELSE LET match == fullmatch(rules[i].matcher, target) IN
         IF match = << >>
         THEN rule_loop(i + 1, top_level, last_missing_target, seen, target,
                        satisfied_targets, is_prerequisite, depth)
         ELSE IF AlreadyResolved(top_level)
         THEN Raise("DuplicateTargetException", <<target>>, seen)
         ELSE LET made == resolve_rule(rules[i], match[1], target,
                                       satisfied_targets, is_prerequisite, depth)
              IN  IF made.kind = "Node"
                  THEN rule_loop(i + 1, <<made.value>>, last_missing_target,
                                 seen \/ made.expanded_ancestor, target,
                                 satisfied_targets, is_prerequisite, depth)
                  ELSE IF made.kind = "MissingTargetException"
                  THEN rule_loop(i + 1, top_level, <<made.value>>,
                                 seen \/ made.expanded_ancestor, target,
                                 satisfied_targets, is_prerequisite, depth)
                  ELSE Also(made, seen)

\* make.py:135-186; a chain of more than MaxDepth calls ends in RecursionError
generate_dependency_graph(target, satisfied_targets, is_prerequisite, depth) ==
    IF depth > MaxDepth
    THEN Raise("RecursionError", << >>, FALSE)
    ELSE rule_loop(1, None, None, FALSE, target, satisfied_targets,
                   is_prerequisite, depth)

-----------------------------------------------------------------------------
(* Scheduler: make.py:197-289 *)

\* class MakeState (make.py:197-200)
NOT_YET_MADE == 0
CURRENTLY_MAKING == 1
FINISHED_MAKING == 2

\* states[name] of the defaultdict (make.py:203)
TargetState(states, name) ==
    IF name \in DOMAIN states THEN states[name] ELSE NOT_YET_MADE

\* states[name] = state
SetTargetState(states, name, state) ==
    [n \in DOMAIN states \cup {name} |-> IF n = name THEN state ELSE states[n]]

\* a search that takes the goal whatever its state
NotClaimable_Never(states, top_level) == FALSE

\* make.py:207  target_states[top_level.name] != MakeState.NOT_YET_MADE
NotClaimable(states, top_level) ==
    TargetState(states, top_level.name) # NOT_YET_MADE

\* a search that does not wait for a child another worker is making
ChildInProgress_Ignored(states, node) == FALSE

\* make.py:217  target_states[node.name] == MakeState.CURRENTLY_MAKING
ChildInProgress(states, node) ==
    TargetState(states, node.name) = CURRENTLY_MAKING

\* a loop that ends at the first child it has to wait for
AfterWaiting_Nothing(children) == << >>

\* make.py:211, 215-218  the loop goes on with the next child
AfterWaiting(children) == Tail(children)

RECURSIVE get_next_node_to_build(_, _)
RECURSIVE scan_children(_, _, _, _)

\* make.py:211-223  the loop over the children from the given one on, and
\* what follows it
scan_children(states, top_level, children, waiting_for_depend) ==
    IF children = << >>
    THEN IF waiting_for_depend THEN <<"MakeBlockedException">>
         ELSE <<"return", top_level>>
    ELSE LET node == Head(children) IN
         IF TargetState(states, node.name) = NOT_YET_MADE
         THEN LET found == get_next_node_to_build(states, node) IN
              IF found[1] = "MakeBlockedException"
              THEN scan_children(states, top_level, AfterWaiting(children), TRUE)
              ELSE found
         ELSE IF ChildInProgress(states, node)
         THEN scan_children(states, top_level, AfterWaiting(children), TRUE)
         ELSE scan_children(states, top_level, Tail(children), waiting_for_depend)

\* make.py:206-223, with target_states = states
get_next_node_to_build(states, top_level) ==
    IF NotClaimable(states, top_level) THEN <<"MakeFinishedException">>
    ELSE scan_children(states, top_level,
                       top_level.depends \o top_level.prerequisites, FALSE)

\* the st_mtime of files written during the run
Now == MaxInitMtime + 1

\* a comparison that an equal time satisfies
Newer_OrEqual(st_mtime, top_level_timestamp) == st_mtime >= top_level_timestamp

\* make.py:257  Path(depend.name).stat().st_mtime > top_level_timestamp
Newer(st_mtime, top_level_timestamp) == st_mtime > top_level_timestamp

RECURSIVE any_newer(_, _, _)
\* make.py:256-258: "True", "False", or "FileNotFoundError" from stat()
any_newer(fs, depends, top_level_timestamp) ==
    IF depends = << >> THEN "False"
    ELSE IF ~PathExists(fs, Head(depends).name) THEN "FileNotFoundError"
    ELSE IF Newer(fs[Head(depends).name], top_level_timestamp) THEN "True"
    ELSE any_newer(fs, Tail(depends), top_level_timestamp)

\* make.py:242-260, in filesystem fs
should_run_node_recipe(fs, node) ==
    IF node.is_phony THEN "True"
    ELSE IF ~PathExists(fs, node.name) THEN "True"
    ELSE IF node.is_prerequisite THEN "False"
    ELSE IF \E i \in 1..Len(node.depends) : node.depends[i].is_phony THEN "True"
    ELSE any_newer(fs, node.depends, fs[node.name])

\* What the recipes of the model do when called: write the target file,
\* return without writing it, or raise an exception that is no MKPY_Exception
Recipes == {"touch", "noop", "raise"}

\* The filesystem after the recipe of the node has run in fs (make.py:283)
RecipeFiles(fs, node) ==
    IF node.recipe = "touch"
    THEN [n \in DOMAIN fs \cup {node.name} |-> IF n = node.name THEN Now ELSE fs[n]]
    ELSE fs

\* a check of the output that finds nothing missing
OutputMissing_Never(fs, node) == FALSE

\* make.py:285  not next_node.is_phony and not Path(next_node.name).exists()
OutputMissing(fs, node) == ~node.is_phony /\ ~PathExists(fs, node.name)

\* The exception leaving lines 283-286 for the node, None when there is none
RecipeException(fs, node) ==
    IF node.recipe = "raise"
    THEN <<[kind |-> "Exception", value |-> <<node.name>>]>>
    ELSE IF node.recipe = "source_file_recipe" /\ ~PathExists(fs, node.name)
    THEN <<[kind |-> "AssertionError", value |-> <<node.name>>]>>
    ELSE IF OutputMissing(RecipeFiles(fs, node), node)
    THEN <<[kind |-> "PhonyUsageException", value |-> <<node.name>>]>>
    ELSE None

\* make.py:38-67  the classes derived from MKPY_Exception
MKPY_Exceptions ==
    {"MKPY_Exception", "MakefileUsageException", "PhonyUsageException",
     "MissingTargetException", "DuplicateTargetException",
     "CircularDependencyException", "MakeBlockedException", "MakeFinishedException"}

\* make.py:235  isinstance(args.exc_value, MKPY_Exception)
IsMkpyException(e) == e.kind \in MKPY_Exceptions

Workers == 1..job_count


RECURSIVE single_job_run(_, _, _, _)
\* run_make with job_count = 1 (make.py:263-289, 304-308): the one worker
\* claims, checks, runs and finishes node after node until the search raises
\* MakeFinishedException or something raises; invoked is the set of names
\* whose recipe was called
single_job_run(top_level, states, fs, invoked) ==
    LET found == get_next_node_to_build(states, top_level) IN
    IF found[1] = "MakeFinishedException"
    THEN [outcome |-> "return", files |-> fs, invoked |-> invoked]
    ELSE IF found[1] = "MakeBlockedException"
    THEN [outcome |-> "spin", files |-> fs, invoked |-> invoked]
    ELSE LET node     == found[2]
             finished == SetTargetState(states, node.name, FINISHED_MAKING)
             run      == should_run_node_recipe(fs, node)
         IN  IF run = "False"
             THEN single_job_run(top_level, finished, fs, invoked)
             ELSE IF run = "True"
             THEN IF RecipeException(fs, node) = None
                  THEN single_job_run(top_level, finished, RecipeFiles(fs, node),
                                      invoked \cup {node.name})
                  ELSE [outcome |-> "raise", files |-> RecipeFiles(fs, node),
                        invoked |-> invoked \cup {node.name}]
             ELSE [outcome |-> "raise", files |-> fs, invoked |-> invoked]

-----------------------------------------------------------------------------
(* History of the run, kept for the properties only *)

Count(bag, name) == IF name \in DOMAIN bag THEN bag[name] ELSE 0

Counted(bag, name) ==
    [n \in DOMAIN bag \cup {name} |-> IF n = name THEN Count(bag, n) + 1 ELSE bag[n]]

\* claims: how often each name was moved to CURRENTLY_MAKING; invoked: how
\* often the recipe of each name was called; raised: the exceptions that left
\* worker threads, in the order they were raised; late: how many names each
\* worker moved to CURRENTLY_MAKING while the abort flag was set; files0: the
\* filesystem before the run
NoHistory(files0) ==
    [claims |-> << >>, invoked |-> << >>, raised |-> << >>, late |-> << >>,
     files0 |-> files0]

-----------------------------------------------------------------------------
(* run_make: make.py:292-308 *)

\* make.py:293
Build ==
    /\ main_pc = "build"
    /\ LET built == generate_dependency_graph(target_name, {}, FALSE, 1) IN
       /\ graph' = built
       /\ main_pc' = IF built.kind = "Node" THEN "start" ELSE "finished"
       /\ run_result' = IF built.kind = "Node" THEN run_result
                        ELSE <<"raise", [kind |-> built.kind, value |-> built.value]>>
    /\ UNCHANGED <<rules, files, target_name, job_count, target_states,
                   dependency_graph_lock, has_any_worker_thrown_an_exception,
                   worker_mkpy_exception, pc, next_node, exc, history>>

\* make.py:295-302  the threads are created and started
StartThreads ==
    /\ main_pc = "start"
    /\ main_pc' = "join"
    /\ pc' = [w \in Workers |-> "while"]
    /\ UNCHANGED <<rules, files, target_name, job_count, graph, run_result,
                   target_states, dependency_graph_lock,
                   has_any_worker_thrown_an_exception, worker_mkpy_exception,
                   next_node, exc, history>>

\* make.py:307-308  the outcome of run_make once the threads are joined
Outcome ==
    IF has_any_worker_thrown_an_exception
    THEN IF worker_mkpy_exception # None
         THEN <<"raise", worker_mkpy_exception[1]>>
         ELSE <<"raise", [kind |-> "MKPY_Exception",
                          value |-> <<"Exception thrown in worker">>]>>
    ELSE <<"return">>

\* a join that waits for one thread of the pool only
AllJoined_First == pc[1] = "exited"

\* make.py:304-305  every thread of the pool has been joined
AllJoined == \A w \in Workers : pc[w] = "exited"

\* make.py:304-308
JoinThreads ==
    /\ main_pc = "join"
    /\ AllJoined
    /\ main_pc' = "finished"
    /\ run_result' = Outcome
    /\ UNCHANGED <<rules, files, target_name, job_count, graph, target_states,
                   dependency_graph_lock, has_any_worker_thrown_an_exception,
                   worker_mkpy_exception, pc, next_node, exc, history>>

-----------------------------------------------------------------------------
(* worker_thread: make.py:263-289, and except_hook: make.py:231-239 *)

\* a lock that excludes nobody
LockFree_Always == TRUE

\* make.py:266, 288  the lock can be taken
LockFree == dependency_graph_lock = 0

\* a with block that keeps the lock when it is left
Release_Kept(w) == w

\* make.py:266-275  the lock when worker w leaves the with block
Release(w) == 0

\* make.py:264  the condition of the while loop is false
LoopEnds == has_any_worker_thrown_an_exception

\* make.py:264  while not has_any_worker_thrown_an_exception
CheckFlag(w) ==
    /\ pc[w] = "while"
    /\ pc' = [pc EXCEPT ![w] =
                 IF LoopEnds THEN "exited" ELSE "acquire"]
    /\ UNCHANGED <<rules, files, target_name, job_count, main_pc, graph, run_result,
                   target_states, dependency_graph_lock,
                   has_any_worker_thrown_an_exception, worker_mkpy_exception,
                   next_node, exc, history>>

\* make.py:266  with dependency_graph_lock
Acquire(w) ==
    /\ pc[w] = "acquire"
    /\ LockFree
    /\ dependency_graph_lock' = w
    /\ pc' = [pc EXCEPT ![w] = "search"]
    /\ UNCHANGED <<rules, files, target_name, job_count, main_pc, graph, run_result,
                   target_states, has_any_worker_thrown_an_exception,
                   worker_mkpy_exception, next_node, exc, history>>

\* make.py:267, 269-275  the search under the lock; MakeBlockedException and
\* MakeFinishedException leave the with block and release the lock
Search(w) ==
    /\ pc[w] = "search"
    /\ LET found == get_next_node_to_build(target_states, graph.value) IN
       IF found[1] = "return"
       THEN /\ next_node' = [next_node EXCEPT ![w] = <<found[2]>>]
            /\ pc' = [pc EXCEPT ![w] = "mark"]
            /\ UNCHANGED dependency_graph_lock
       ELSE /\ dependency_graph_lock' = Release(w)
            /\ pc' = [pc EXCEPT ![w] =
                         IF found[1] = "MakeBlockedException" THEN "while" ELSE "exited"]
            /\ UNCHANGED next_node
    /\ UNCHANGED <<rules, files, target_name, job_count, main_pc, graph, run_result,
                   target_states, has_any_worker_thrown_an_exception,
                   worker_mkpy_exception, exc, history>>

\* make.py:268  the claim, and the end of the with block
Mark(w) ==
    /\ pc[w] = "mark"
    /\ target_states' = SetTargetState(target_states, next_node[w][1].name, CURRENTLY_MAKING)
    /\ dependency_graph_lock' = Release(w)
    /\ pc' = [pc EXCEPT ![w] = "claimed"]
    /\ history' = [history EXCEPT
                       !.claims = Counted(@, next_node[w][1].name),
                       !.late = IF has_any_worker_thrown_an_exception
                                THEN Counted(@, w) ELSE @]
    /\ UNCHANGED <<rules, files, target_name, job_count, main_pc, graph, run_result,
                   has_any_worker_thrown_an_exception, worker_mkpy_exception,
                   next_node, exc>>

\* make.py:280-283  the staleness check; the recipe is called when it says so
Evaluate(w) ==
    /\ pc[w] = "claimed"
    /\ LET run == should_run_node_recipe(files, next_node[w][1]) IN
       IF run = "True"
       THEN /\ pc' = [pc EXCEPT ![w] = "recipe"]
            /\ history' = [history EXCEPT !.invoked = Counted(@, next_node[w][1].name)]
            /\ UNCHANGED exc
       ELSE IF run = "False"
       THEN /\ pc' = [pc EXCEPT ![w] = "finish"]
            /\ UNCHANGED <<exc, history>>
       ELSE /\ pc' = [pc EXCEPT ![w] = "excepthook"]
            /\ exc' = [exc EXCEPT ![w] =
                          <<[kind |-> run, value |-> <<next_node[w][1].name>>]>>]
            /\ history' = [history EXCEPT !.raised = Append(@, exc'[w][1])]
    /\ UNCHANGED <<rules, files, target_name, job_count, main_pc, graph, run_result,
                   target_states, dependency_graph_lock,
                   has_any_worker_thrown_an_exception, worker_mkpy_exception, next_node>>

\* make.py:283-286  the recipe returns or raises, then the check of its output
RecipeEnds(w) ==
    /\ pc[w] = "recipe"
    /\ files' = RecipeFiles(files, next_node[w][1])
    /\ LET raised == RecipeException(files, next_node[w][1]) IN
       IF raised = None
       THEN /\ pc' = [pc EXCEPT ![w] = "finish"]
            /\ UNCHANGED <<exc, history>>
       ELSE /\ pc' = [pc EXCEPT ![w] = "excepthook"]
            /\ exc' = [exc EXCEPT ![w] = raised]
            /\ history' = [history EXCEPT !.raised = Append(@, raised[1])]
    /\ UNCHANGED <<rules, target_name, job_count, main_pc, graph, run_result,
                   target_states, dependency_graph_lock,
                   has_any_worker_thrown_an_exception, worker_mkpy_exception, next_node>>

\* make.py:288-289
Finish(w) ==
    /\ pc[w] = "finish"
    /\ LockFree
    /\ target_states' = SetTargetState(target_states, next_node[w][1].name, FINISHED_MAKING)
    /\ pc' = [pc EXCEPT ![w] = "while"]
    /\ UNCHANGED <<rules, files, target_name, job_count, main_pc, graph, run_result,
                   dependency_graph_lock, has_any_worker_thrown_an_exception,
                   worker_mkpy_exception, next_node, exc, history>>

\* a hook that leaves the abort flag alone
FlagAfterHook_Unset == has_any_worker_thrown_an_exception

\* make.py:233  has_any_worker_thrown_an_exception = True
FlagAfterHook == TRUE

\* make.py:233  the first statement of except_hook, run by the dying thread;
\* an exception that is no MKPY_Exception is printed (238-239) and the thread ends
HookSetsFlag(w) ==
    /\ pc[w] = "excepthook"
    /\ has_any_worker_thrown_an_exception' = FlagAfterHook
    /\ pc' = [pc EXCEPT ![w] =
                 IF IsMkpyException(exc[w][1]) THEN "store" ELSE "exited"]
    /\ UNCHANGED <<rules, files, target_name, job_count, main_pc, graph, run_result,
                   target_states, dependency_graph_lock, worker_mkpy_exception,
                   next_node, exc, history>>

\* make.py:236  worker_mkpy_exception = args.exc_value
HookStores(w) ==
    /\ pc[w] = "store"
    /\ worker_mkpy_exception' = exc[w]
    /\ pc' = [pc EXCEPT ![w] = "exited"]
    /\ UNCHANGED <<rules, files, target_name, job_count, main_pc, graph, run_result,
                   target_states, dependency_graph_lock,
                   has_any_worker_thrown_an_exception, next_node, exc, history>>


-----------------------------------------------------------------------------
(* Makefiles and filesystems the runs start from *)

\* the name and the literal pattern or template made of the characters given
Lit1(c) == <<c>>

\* A depends on B, B depends on the source file C
ChainRules(ra, rb) ==
    << Rule(Lit1("a"), ra, <<Lit1("b")>>, << >>, FALSE),
       Rule(Lit1("b"), rb, <<Lit1("c")>>, << >>, FALSE) >>

\* a phony A, whose recipe writes no file, depends on B and C; B depends on
\* nothing, C on the source D
FanRules(rb, rc) ==
    << Rule(Lit1("a"), "noop", <<Lit1("b"), Lit1("c")>>, << >>, TRUE),
       Rule(Lit1("b"), rb, << >>, << >>, FALSE),
       Rule(Lit1("c"), rc, <<Lit1("d")>>, << >>, FALSE) >>

\* A depends on B and C, B has the prerequisite C, C depends on the source D
SharedRules(ra, rb, rc) ==
    << Rule(Lit1("a"), ra, <<Lit1("b"), Lit1("c")>>, << >>, FALSE),
       Rule(Lit1("b"), rb, << >>, <<Lit1("c")>>, FALSE),
       Rule(Lit1("c"), rc, <<Lit1("d")>>, << >>, FALSE) >>

\* a phony wildcard rule: x<name> depends on <name>, with the prerequisite b
WildRules(rx, rb) ==
    << Rule(<<"x", Group>>, rx, <<<<Field>>>>, <<Lit1("b")>>, TRUE),
       Rule(Lit1("b"), rb, << >>, << >>, TRUE) >>

\* a phony A depends on C and B, in this order; C depends on the source D
LateRules(rb, rc) ==
    << Rule(Lit1("a"), "noop", <<Lit1("c"), Lit1("b")>>, << >>, TRUE),
       Rule(Lit1("b"), rb, << >>, << >>, FALSE),
       Rule(Lit1("c"), rc, <<Lit1("d")>>, << >>, FALSE) >>

Makefiles ==
    {[goal |-> Lit1("a"), rules |-> ChainRules(ra, rb),
      paths |-> {Lit1("a"), Lit1("b"), Lit1("c")}, sources |-> {Lit1("c")}] :
        ra \in Recipes, rb \in Recipes}
    \cup
    {[goal |-> Lit1("a"), rules |-> FanRules(rb, rc),
      paths |-> {Lit1("b"), Lit1("c"), Lit1("d")}, sources |-> {Lit1("d")}] :
        rb \in Recipes, rc \in Recipes}
    \cup
    {[goal |-> Lit1("a"), rules |-> SharedRules(ra, rb, rc),
      paths |-> {Lit1("c"), Lit1("d")}, sources |-> {Lit1("d")}] :
        ra \in Recipes, rb \in Recipes, rc \in Recipes}
    \cup
    {[goal |-> Lit1("a"), rules |-> LateRules(rb, "touch"),
      paths |-> {Lit1("d")}, sources |-> {Lit1("d")}] :
        rb \in {"touch", "noop"}}
    \cup
    {[goal |-> <<"x", "a">>, rules |-> WildRules(rx, rb),
      paths |-> {Lit1("a")}, sources |-> {Lit1("a")}] :
        rx \in Recipes, rb \in Recipes}

\* the filesystems in which some of the paths exist
FileSystems(paths) ==
    UNION {[existing -> 1..MaxInitMtime] : existing \in SUBSET paths}

InitRun(makefile, fs, jobs) ==
    /\ rules = makefile.rules
    /\ target_name = makefile.goal
    /\ files = fs
    /\ job_count = jobs
    /\ main_pc = "build"
    /\ graph = None
    /\ run_result = None
    /\ target_states = << >>
    /\ dependency_graph_lock = 0
    /\ has_any_worker_thrown_an_exception = FALSE
    /\ worker_mkpy_exception = None
    /\ pc = [w \in 1..jobs |-> "unstarted"]
    /\ next_node = [w \in 1..jobs |-> None]
    /\ exc = [w \in 1..jobs |-> None]
    /\ history = NoHistory(fs)

Init ==
    \E makefile \in Makefiles, jobs \in 1..MaxJobs :
        \E fs \in FileSystems(makefile.paths) : InitRun(makefile, fs, jobs)

Next ==
    \/ Build
    \/ StartThreads
    \/ JoinThreads
    \/ \E w \in Workers : CheckFlag(w)
    \/ \E w \in Workers : Acquire(w)
    \/ \E w \in Workers : Search(w)
    \/ \E w \in Workers : Mark(w)
    \/ \E w \in Workers : Evaluate(w)
    \/ \E w \in Workers : RecipeEnds(w)
    \/ \E w \in Workers : Finish(w)
    \/ \E w \in Workers : HookSetsFlag(w)
    \/ \E w \in Workers : HookStores(w)

Spec == Init /\ [][Next]_vars


\* The threads are scheduled fairly: once the graph is built, the main
\* thread and every worker take their next step when it stays possible, a
\* recipe that was called returns or raises, and a worker waiting for the
\* lock gets it when it is free again and again.
Fairness ==
    /\ WF_vars(StartThreads \/ JoinThreads)
    /\ \A w \in 1..MaxJobs :
           /\ WF_vars(w \in Workers /\ (CheckFlag(w) \/ Search(w) \/ Mark(w)
                                        \/ Evaluate(w) \/ RecipeEnds(w)
                                        \/ HookSetsFlag(w) \/ HookStores(w)))
           /\ SF_vars(w \in Workers /\ (Acquire(w) \/ Finish(w)))

\* the runs that start in a clean tree: of the paths of the makefile only
\* its source files exist
InitClean ==
    \E makefile \in Makefiles, jobs \in 1..MaxJobs :
        InitRun(makefile, [p \in makefile.sources |-> 1], jobs)

FairSpec == InitClean /\ [][Next]_vars /\ Fairness

-----------------------------------------------------------------------------
(* The graph builder alone, over every registry of up to MaxRules rules *)

BuilderMatchers == {Lit1("a"), Lit1("b"), <<"x", Group>>}

BuilderTemplates == {Lit1("a"), Lit1("b"), <<Field>>}

BuilderPairs == {p \in BuilderTemplates \X BuilderTemplates : p[1] # p[2]}

\* the depends and prerequisites of a rule: at most two templates in all,
\* and no template twice
BuilderRequirements ==
    {<< << >>, << >> >>}
    \cup {<< <<t>>, << >> >> : t \in BuilderTemplates}
    \cup {<< << >>, <<t>> >> : t \in BuilderTemplates}
    \cup {<< <<p[1], p[2]>>, << >> >> : p \in BuilderPairs}
    \cup {<< <<p[1]>>, <<p[2]>> >> : p \in BuilderPairs}

BuilderRules ==
    {Rule(m, "touch", r[1], r[2], FALSE) : m \in BuilderMatchers, r \in BuilderRequirements}

Registries == UNION {[1..n -> BuilderRules] : n \in 0..MaxRules}

BuilderGoals == {Lit1("a"), <<"x", "a">>}

InitGraph ==
    \E registry \in Registries, goal \in BuilderGoals,
       existing \in SUBSET {Lit1("a"), Lit1("b")} :
        InitRun([rules |-> registry, goal |-> goal], [p \in existing |-> 1], 1)

NextGraph == Build

SpecGraph == InitGraph /\ [][NextGraph]_vars


-----------------------------------------------------------------------------
(* A worker that has claimed one node, in any filesystem: the staleness      *)
(* check and the recipe of make.py:280-286. The files are not under the      *)
(* control of the program: a file of a finished dependency may be gone.      *)

StaleTarget == Lit1("t")

\* a finished child: phony, or a file
StaleChild(c, is_phony, is_prerequisite) ==
    Node(Lit1(c), is_phony, is_prerequisite, "noop", << >>, << >>)

StaleDepends ==
    {<< >>}
    \cup {<<StaleChild("d", ph, FALSE)>> : ph \in BOOLEAN}
    \cup {<<StaleChild("d", ph, FALSE), StaleChild("e", qh, FALSE)>> :
              ph \in BOOLEAN, qh \in BOOLEAN}

StalePrerequisites == {<< >>, <<StaleChild("p", FALSE, TRUE)>>}

StaleNodes ==
    {Node(StaleTarget, is_phony, is_prerequisite, recipe, depends, prerequisites) :
        is_phony \in BOOLEAN, is_prerequisite \in BOOLEAN,
        recipe \in {"touch", "noop"},
        depends \in StaleDepends, prerequisites \in StalePrerequisites}

\* the goal above the claimed node: it reaches the node by the edge the node
\* is tagged with
StaleRoot(node) ==
    Node(Lit1("r"), TRUE, FALSE, "noop",
         IF node.is_prerequisite THEN << >> ELSE <<node>>,
         IF node.is_prerequisite THEN <<node>> ELSE << >>)

\* target_states when the node has just been claimed: its children are
\* FINISHED_MAKING
StaleStates(node) ==
    LET children == node.depends \o node.prerequisites IN
    [name \in {node.name} \cup {children[i].name : i \in 1..Len(children)} |->
        IF name = node.name THEN CURRENTLY_MAKING ELSE FINISHED_MAKING]

InitStale ==
    \E node \in StaleNodes,
       fs \in FileSystems({StaleTarget, Lit1("d"), Lit1("e"), Lit1("p")}) :
        /\ rules = << >>
        /\ target_name = Lit1("r")
        /\ files = fs
        /\ job_count = 1
        /\ main_pc = "join"
        /\ graph = Return("Node", StaleRoot(node), FALSE)
        /\ run_result = None
        /\ target_states = StaleStates(node)
        /\ dependency_graph_lock = 0
        /\ has_any_worker_thrown_an_exception = FALSE
        /\ worker_mkpy_exception = None
        /\ pc = <<"claimed">>
        /\ next_node = << <<node>> >>
        /\ exc = <<None>>
        /\ history = [NoHistory(fs) EXCEPT !.claims = Counted(@, node.name)]

NextStale ==
    \/ \E w \in Workers : Evaluate(w)
    \/ \E w \in Workers : RecipeEnds(w)

SpecStale == InitStale /\ [][NextStale]_vars


-----------------------------------------------------------------------------
(* Properties *)

Range(seq) == {seq[i] : i \in 1..Len(seq)}

ChildrenOf(node) == Range(node.depends \o node.prerequisites)

RECURSIVE TreeNodes(_)
\* every node of the tree under the given one, itself included
TreeNodes(node) ==
    {node} \cup UNION {TreeNodes(child) : child \in ChildrenOf(node)}

RECURSIVE Occurrences(_, _)
\* the number of places of the tree under the node where the name occurs
Occurrences(node, name) ==
    LET children == node.depends \o node.prerequisites
        below[i \in 0..Len(children)] ==
            IF i = 0 THEN 0 ELSE below[i - 1] + Occurrences(children[i], name)
    IN  (IF node.name = name THEN 1 ELSE 0) + below[Len(children)]

\* the worker has claimed its node and has not yet marked it finished
Holding(w) == pc[w] \in {"claimed", "recipe", "finish"}

Built == graph # None /\ graph.kind = "Node"

\* C1: a node is claimed, and its staleness check and recipe run, only when
\* every one of its children (depends and prerequisites) is FINISHED_MAKING
\* and no worker is still making that child; the same holds of every node of
\* the tree that has left NOT_YET_MADE.
C1_DependencyOrdering ==
    /\ \A w \in Workers :
           Holding(w) =>
               \A child \in ChildrenOf(next_node[w][1]) :
                   /\ TargetState(target_states, child.name) = FINISHED_MAKING
                   /\ \A v \in Workers :
                          Holding(v) => next_node[v][1].name # child.name
    /\ Built =>
           \A node \in TreeNodes(graph.value) :
               TargetState(target_states, node.name) # NOT_YET_MADE =>
                   \A child \in ChildrenOf(node) :
                       TargetState(target_states, child.name) = FINISHED_MAKING

\* A depends on B, B on the source C, several workers: the recipe of A is
\* running after the recipe of B has run
C1_Witness ==
    /\ job_count > 1
    /\ \E w \in Workers :
           /\ pc[w] = "recipe"
           /\ next_node[w][1].name = Lit1("a")
           /\ Len(next_node[w][1].depends) = 1
           /\ Count(history.invoked, Lit1("b")) = 1
           /\ Count(history.invoked, Lit1("a")) = 1

\* C2: every name is moved to CURRENTLY_MAKING at most once in a run, its
\* recipe is called at most once, and no two workers hold the same name.
C2_ClaimedOnce ==
    /\ \A name \in DOMAIN history.claims : history.claims[name] <= 1
    /\ \A name \in DOMAIN history.invoked : history.invoked[name] <= 1
    /\ \A w \in Workers, v \in Workers :
           (w # v /\ Holding(w) /\ Holding(v)) =>
               next_node[w][1].name # next_node[v][1].name

\* a run with several workers has ended, and a name that occurs at several
\* places of the tree was claimed once and its recipe called
C2_Witness ==
    /\ job_count > 1
    /\ main_pc = "finished"
    /\ Built
    /\ \E name \in DOMAIN history.invoked :
           /\ Occurrences(graph.value, name) > 1
           /\ history.claims[name] = 1
           /\ history.invoked[name] = 1


Finished == main_pc = "finished" /\ Built

\* what run_make does with one job on the filesystem the run started from
SingleJob == single_job_run(graph.value, << >>, history.files0, {})

\* C3 (as claimed): a run with any job count ends with the outcome, the
\* filesystem and the set of called recipes of the run with one job, also
\* when a recipe fails.
C3_SameAsOneJob ==
    Finished =>
        /\ run_result[1] = SingleJob.outcome
        /\ files = SingleJob.files
        /\ DOMAIN history.invoked = SingleJob.invoked

\* C3 (amended): a run with any job count succeeds or fails as the run with
\* one job does, and when it succeeds it ends with the same filesystem and
\* has called the same recipes.
C3_SameAsOneJobOnSuccess ==
    Finished =>
        /\ run_result[1] = SingleJob.outcome
        /\ run_result[1] = "return" =>
               /\ files = SingleJob.files
               /\ DOMAIN history.invoked = SingleJob.invoked

\* a run with several workers has succeeded after calling three recipes
C3_Witness ==
    /\ Finished
    /\ job_count > 1
    /\ run_result[1] = "return"
    /\ Cardinality(DOMAIN history.invoked) >= 3

\* the exceptions derived from MKPY_Exception among those raised, in order
MkpyRaised == SelectSeq(history.raised, IsMkpyException)

\* C4: the error run_make raises is the MKPY_Exception of the first worker
\* that failed with one; a later one does not replace it.
C4_FirstErrorWins ==
    (Finished /\ MkpyRaised # << >>) => run_result = <<"raise", MkpyRaised[1]>>

\* C5: once the abort flag is set no worker moves a name from NOT_YET_MADE
\* to CURRENTLY_MAKING (history.late counts, per worker, the names it marked
\* while the flag was set).
C5_NoClaimAfterAbort ==
    \A w \in Workers : Count(history.late, w) = 0

\* a worker has claimed a name after another worker set the abort flag
C5_Witness ==
    \E w \in Workers :
        /\ Count(history.late, w) = 1
        /\ pc[w] = "claimed"
        /\ has_any_worker_thrown_an_exception

\* C6: run_make ends only when each of its job_count workers has exited; it
\* raises exactly when a worker raised: an MKPY_Exception a worker raised
\* when there is one, the generic MKPY_Exception otherwise.
C6_RunResult ==
    Finished =>
        /\ DOMAIN pc = 1..job_count
        /\ \A w \in Workers : pc[w] = "exited"
        /\ (run_result[1] = "raise") <=> (history.raised # << >>)
        /\ history.raised = << >> => run_result = <<"return">>
        /\ MkpyRaised # << >> => run_result[2] \in Range(MkpyRaised)
        /\ (history.raised # << >> /\ MkpyRaised = << >>) =>
               run_result[2].kind = "MKPY_Exception"

\* a run has ended in which one worker raised PhonyUsageException and
\* another an exception that is no MKPY_Exception
C6_Witness ==
    /\ Finished
    /\ Len(history.raised) = 2
    /\ Len(MkpyRaised) = 1
    /\ run_result = <<"raise", MkpyRaised[1]>>


\* C7: with fair scheduling and recipes that return or raise, once the graph
\* is built every worker leaves its loop and run_make returns or raises.
C7_Termination ==
    (main_pc # "build") ~>
        (/\ main_pc = "finished"
         /\ \A w \in Workers : pc[w] \in {"unstarted", "exited"})

\* run_make has raised after a worker spun while another worker was making
\* a name that then failed and stayed CURRENTLY_MAKING
C7_Witness ==
    /\ Finished
    /\ job_count > 1
    /\ run_result[1] = "raise"
    /\ \E name \in DOMAIN target_states : target_states[name] = CURRENTLY_MAKING
    /\ TargetState(target_states, target_name) = NOT_YET_MADE


\* the registered rules whose pattern matches the goal
Matching == {i \in 1..Len(rules) : fullmatch(rules[i].matcher, target_name) # << >>}

\* what building the subgraphs of matching rule i gives for the goal: its
\* node, or the exception raised in its subtree
Resolved(i) ==
    resolve_rule(rules[i], fullmatch(rules[i].matcher, target_name)[1],
                 target_name, {}, FALSE, 1)

GraphDone == graph # None

\* C8: when two rules match the goal, one of them fails with
\* MissingTargetException in its subtree and the other resolves, the goal
\* resolves to the node of the other rule, whichever was registered first.
C8_NoSpuriousDuplicate ==
    GraphDone =>
        \A i \in Matching, j \in Matching :
            (/\ Matching = {i, j}
             /\ i # j
             /\ Resolved(i).kind = "MissingTargetException"
             /\ Resolved(j).kind = "Node")
            => (graph.kind = "Node" /\ graph.value = Resolved(j).value)

\* C9: when two or more rules match the goal and each of them resolves,
\* building the graph raises DuplicateTargetException for the goal.
C9_Ambiguity ==
    (/\ GraphDone
     /\ Cardinality(Matching) >= 2
     /\ \A i \in Matching : Resolved(i).kind = "Node")
    => (graph.kind = "DuplicateTargetException" /\ graph.value = <<target_name>>)

\* two rules match the goal, both resolve, one of them through a dependency,
\* and the build has raised DuplicateTargetException
C9_Witness ==
    /\ GraphDone
    /\ Cardinality(Matching) = 2
    /\ \A i \in Matching : Resolved(i).kind = "Node"
    /\ \E i \in Matching : Len(Resolved(i).value.depends) > 0
    /\ graph.kind = "DuplicateTargetException"

\* C10: when, while the goal is resolved, a template expands to the name of
\* a target on the chain being resolved (the goal included), building the
\* graph ends by raising CircularDependencyException.
C10_CycleDetected ==
    (GraphDone /\ graph.expanded_ancestor) =>
        graph.kind = "CircularDependencyException"

\* a template of another target expanded to the goal, the goal was resolved
\* a second time and the build has raised CircularDependencyException there
C10_Witness ==
    /\ GraphDone
    /\ graph.expanded_ancestor
    /\ graph.kind = "CircularDependencyException"
    /\ graph.value[1] = target_name
    /\ graph.value[2] # target_name


\* the exception raised for a recipe that left no file of the name
PhonyUsage(name) == [kind |-> "PhonyUsageException", value |-> <<name>>]

\* the recipe of the node was called and has returned
RecipeReturned(node) ==
    /\ Count(history.invoked, node.name) > 0
    /\ node.recipe \in {"touch", "noop"}
    /\ \A w \in Workers : ~(pc[w] = "recipe" /\ next_node[w][1].name = node.name)

\* C11: when the recipe of a non-phony node has returned and the file of the
\* node does not exist, the worker has raised PhonyUsageException for it, the
\* name is not FINISHED_MAKING, the abort flag is set once the hook has run,
\* and run_make raises a PhonyUsageException.
C11_PhonyUsage ==
    Built =>
        \A node \in TreeNodes(graph.value) :
            (RecipeReturned(node) /\ ~node.is_phony /\ ~PathExists(files, node.name))
            => /\ PhonyUsage(node.name) \in Range(history.raised)
               /\ TargetState(target_states, node.name) = CURRENTLY_MAKING
               /\ (\A w \in Workers :
                      ~(pc[w] = "excepthook" /\ exc[w] = <<PhonyUsage(node.name)>>))
                  => has_any_worker_thrown_an_exception
               /\ main_pc = "finished" =>
                      /\ run_result[1] = "raise"
                      /\ run_result[2].kind = "PhonyUsageException"

\* a run of two workers has ended with PhonyUsageException for a name whose
\* recipe returned without writing the file, after another name was finished
C11_Witness ==
    /\ Finished
    /\ job_count > 1
    /\ \E node \in TreeNodes(graph.value) :
           /\ RecipeReturned(node)
           /\ ~node.is_phony
           /\ ~PathExists(files, node.name)
           /\ run_result = <<"raise", PhonyUsage(node.name)>>
    /\ \E name \in DOMAIN target_states : target_states[name] = FINISHED_MAKING


\* the node of a source file: make.py:177-184
Leaf(name, is_prerequisite) ==
    Node(name, FALSE, is_prerequisite, "source_file_recipe", << >>, << >>)

\* C12: when every rule matching the goal (there may be none) fails with
\* MissingTargetException in its subtree, the build raises
\* MissingTargetException if no file of the name exists and returns the leaf
\* node of the file if it exists; when a rule resolved, the build does not
\* return the leaf node; every leaf of the returned tree is an existing file.
C12_LeafResolution ==
    GraphDone =>
        /\ (\A i \in Matching : Resolved(i).kind = "MissingTargetException")
           => IF PathExists(files, target_name)
              THEN graph.kind = "Node" /\ graph.value = Leaf(target_name, FALSE)
              ELSE graph.kind = "MissingTargetException"
        /\ (\E i \in Matching : Resolved(i).kind = "Node")
           => ~(graph.kind = "Node" /\ graph.value = Leaf(target_name, FALSE))
        /\ graph.kind = "Node"
           => \A node \in TreeNodes(graph.value) :
                  node.recipe = "source_file_recipe"
                  => /\ node = Leaf(node.name, node.is_prerequisite)
                     /\ PathExists(files, node.name)

\* the only rule matching the goal failed with MissingTargetException in its
\* subtree, the file of the goal exists and the build returned its leaf
C12_Witness ==
    /\ GraphDone
    /\ Matching # {}
    /\ \A i \in Matching : Resolved(i).kind = "MissingTargetException"
    /\ PathExists(files, target_name)
    /\ graph.kind = "Node"
    /\ graph.value = Leaf(target_name, FALSE)


\* the decision as the staleness policy states it, for a node in filesystem fs
shouldRun(fs, node) ==
    IF node.is_phony THEN TRUE
    ELSE IF ~PathExists(fs, node.name) THEN TRUE
    ELSE IF node.is_prerequisite THEN FALSE
    ELSE \/ \E i \in 1..Len(node.depends) : node.depends[i].is_phony
         \/ \E i \in 1..Len(node.depends) :
                /\ PathExists(fs, node.depends[i].name)
                /\ fs[node.depends[i].name] > fs[node.name]

\* the decision is made without comparing timestamps, or the file of every
\* direct dependency exists
Comparable(fs, node) ==
    \/ node.is_phony
    \/ ~PathExists(fs, node.name)
    \/ node.is_prerequisite
    \/ \E i \in 1..Len(node.depends) : node.depends[i].is_phony
    \/ \A i \in 1..Len(node.depends) : PathExists(fs, node.depends[i].name)

\* the worker is past the staleness check of the node it claimed
Evaluated(w) == pc[w] \in {"recipe", "finish", "excepthook", "store", "exited"}

\* what C13 says of worker w and the node it claimed in filesystem files0
StalenessObeyed(w) ==
    LET node == next_node[w][1] IN
    /\ Count(history.invoked, node.name) =
           (IF shouldRun(history.files0, node) THEN 1 ELSE 0)
    /\ ~shouldRun(history.files0, node) => pc[w] = "finish"

OutOfDate(node) ==
    /\ ~node.is_phony
    /\ PathExists(history.files0, node.name)
    /\ \E i \in 1..Len(node.depends) :
           \/ node.depends[i].is_phony
           \/ /\ PathExists(history.files0, node.depends[i].name)
              /\ history.files0[node.depends[i].name] > history.files0[node.name]

\* C14: a name that is reached through a dependency edge (or is the goal),
\* is out of date and has been made had its recipe called, also when the name
\* is reached through a prerequisite edge elsewhere in the tree.
C14_RebuiltWhenDependedOn ==
    Built =>
        \A node \in TreeNodes(graph.value) :
            (/\ ~node.is_prerequisite
             /\ OutOfDate(node)
             /\ TargetState(target_states, node.name) = FINISHED_MAKING)
            => Count(history.invoked, node.name) > 0


\* the names of the makefiles
AllNames == {Lit1("a"), Lit1("b"), Lit1("c"), Lit1("d"), <<"x", "a">>}

\* a worker raised an exception while it was making the name
Failed(name) ==
    \E i \in 1..Len(history.raised) : history.raised[i].value = <<name>>

\* C15 (as claimed): every name a worker moves to CURRENTLY_MAKING becomes
\* FINISHED_MAKING, whether its recipe returns or raises.
C15_ClaimedIsFinished ==
    \A name \in AllNames :
        (TargetState(target_states, name) = CURRENTLY_MAKING)
        ~> (TargetState(target_states, name) = FINISHED_MAKING)

\* C15 (amended): every name a worker moves to CURRENTLY_MAKING becomes
\* FINISHED_MAKING unless the worker raises while making it.
C15_ClaimedIsFinishedOrFailed ==
    \A name \in AllNames :
        (TargetState(target_states, name) = CURRENTLY_MAKING)
        ~> (TargetState(target_states, name) = FINISHED_MAKING \/ Failed(name))

\* two workers: a name whose recipe was called is FINISHED_MAKING and
\* another name, whose worker raised, is still CURRENTLY_MAKING at the end
C15_Witness ==
    /\ Finished
    /\ job_count > 1
    /\ \E name \in AllNames :
           /\ TargetState(target_states, name) = FINISHED_MAKING
           /\ Count(history.invoked, name) > 0
    /\ \E name \in AllNames :
           /\ TargetState(target_states, name) = CURRENTLY_MAKING
           /\ Failed(name)


\* the nodes of the tree that are NOT_YET_MADE with every child
\* FINISHED_MAKING
Claimable ==
    {node \in TreeNodes(graph.value) :
        /\ TargetState(target_states, node.name) = NOT_YET_MADE
        /\ \A child \in ChildrenOf(node) :
               TargetState(target_states, child.name) = FINISHED_MAKING}

\* what a search of the tree gives in the current state
Found == get_next_node_to_build(target_states, graph.value)

\* C16: the search raises MakeFinishedException exactly when the goal is not
\* NOT_YET_MADE; otherwise it raises MakeBlockedException exactly when no
\* node is claimable, and the node it returns is a claimable one.
C16_WorkConserving ==
    Built =>
        /\ (Found[1] = "MakeFinishedException")
               <=> (TargetState(target_states, target_name) # NOT_YET_MADE)
        /\ (TargetState(target_states, target_name) = NOT_YET_MADE)
               => ((Found[1] = "MakeBlockedException") <=> (Claimable = {}))
        /\ (Found[1] = "return") => (Found[2] \in Claimable)

\* the first child of the goal is NOT_YET_MADE and its subtree is blocked by
\* a node a worker is making; the search returns the second child
C16_Witness ==
    /\ Built
    /\ Len(graph.value.depends) > 1
    /\ TargetState(target_states, graph.value.depends[1].name) = NOT_YET_MADE
    /\ get_next_node_to_build(target_states, graph.value.depends[1])
           = <<"MakeBlockedException">>
    /\ Found = <<"return", graph.value.depends[2]>>
    /\ Found[2] \in Claimable


\* C17: every step leaves the state of each name as it is or moves it one
\* step forward, NOT_YET_MADE to CURRENTLY_MAKING or CURRENTLY_MAKING to
\* FINISHED_MAKING; no step of a run, failed or not, moves a name backward
\* or out of FINISHED_MAKING.
C17_Monotonic ==
    [][\A name \in AllNames :
           \/ TargetState(target_states', name) = TargetState(target_states, name)
           \/ /\ TargetState(target_states, name) = NOT_YET_MADE
              /\ TargetState(target_states', name) = CURRENTLY_MAKING
           \/ /\ TargetState(target_states, name) = CURRENTLY_MAKING
              /\ TargetState(target_states', name) = FINISHED_MAKING]_vars

\* a failed run has ended with two names FINISHED_MAKING, one name
\* CURRENTLY_MAKING and the goal NOT_YET_MADE
C17_Witness ==
    /\ Finished
    /\ run_result[1] = "raise"
    /\ Cardinality({name \in AllNames :
                       TargetState(target_states, name) = FINISHED_MAKING}) >= 2
    /\ \E name \in AllNames : TargetState(target_states, name) = CURRENTLY_MAKING
    /\ TargetState(target_states, target_name) = NOT_YET_MADE


RECURSIVE Tags(_, _, _)
\* the nodes of the tree under the given node, each with the tag of the edge
\* that leads to it; with inherited, a node below a prerequisite edge has the
\* tag TRUE whatever the edge that leads to it
Tags(node, tag, inherited) ==
    {<<node, tag>>}
    \cup UNION {Tags(node.depends[i], inherited /\ tag, inherited) :
                   i \in 1..Len(node.depends)}
    \cup UNION {Tags(node.prerequisites[i], TRUE, inherited) :
                   i \in 1..Len(node.prerequisites)}

\* C18 (as claimed): is_prerequisite is true for every node of a subtree
\* reached through a prerequisite edge and false for the goal and the nodes
\* under no prerequisite edge.
C18_SubtreeTagged ==
    (GraphDone /\ graph.kind = "Node") =>
        \A p \in Tags(graph.value, FALSE, TRUE) : p[1].is_prerequisite = p[2]

\* C18 (amended): is_prerequisite is true for the nodes in the prerequisites
\* of their parent and false for the goal and the nodes in the depends of
\* their parent.
C18_EdgeTagged ==
    (GraphDone /\ graph.kind = "Node") =>
        \A p \in Tags(graph.value, FALSE, FALSE) : p[1].is_prerequisite = p[2]

\* the tree has a node in the depends of a node that is itself in the
\* prerequisites of the goal
C18_Witness ==
    /\ GraphDone
    /\ graph.kind = "Node"
    /\ \E i \in 1..Len(graph.value.prerequisites) :
           /\ graph.value.prerequisites[i].is_prerequisite
           /\ Len(graph.value.prerequisites[i].depends) > 0
           /\ ~graph.value.prerequisites[i].depends[1].is_prerequisite


\* C19: when run_make has returned without raising, the goal and every name
\* of the tree are FINISHED_MAKING, and no name is NOT_YET_MADE or
\* CURRENTLY_MAKING.
C19_SuccessIsComplete ==
    (Finished /\ run_result = <<"return">>) =>
        /\ \A node \in TreeNodes(graph.value) :
               TargetState(target_states, node.name) = FINISHED_MAKING
        /\ \A name \in DOMAIN target_states :
               target_states[name] = FINISHED_MAKING

\* run_make has returned from a run of two workers on a tree of four names
C19_Witness ==
    /\ Finished
    /\ run_result = <<"return">>
    /\ job_count > 1
    /\ Cardinality({node.name : node \in TreeNodes(graph.value)}) >= 4
    /\ TargetState(target_states, target_name) = FINISHED_MAKING


\* the nodes of the tree that have a node of the name below them
Ancestors(name) ==
    {node \in TreeNodes(graph.value) :
        \E below \in TreeNodes(node) \ {node} : below.name = name}

\* C20: a name whose worker raised while making it stays CURRENTLY_MAKING,
\* and no node above it in the tree is claimed or has its recipe called.
C20_FailureBlocksDependents ==
    Built =>
        \A name \in AllNames :
            Failed(name) =>
                /\ TargetState(target_states, name) = CURRENTLY_MAKING
                /\ \A node \in Ancestors(name) :
                       /\ TargetState(target_states, node.name) = NOT_YET_MADE
                       /\ Count(history.claims, node.name) = 0
                       /\ Count(history.invoked, node.name) = 0
                       /\ \A w \in Workers :
                              pc[w] = "mark" => next_node[w][1].name # node.name

\* a run has ended in which a name failed, a worker claimed another name
\* after the abort flag was set, and the goal above the failed name was
\* never claimed
C20_Witness ==
    /\ Finished
    /\ \E w \in Workers : Count(history.late, w) > 0
    /\ \E name \in AllNames :
           /\ Failed(name)
           /\ Ancestors(name) # {}
           /\ TargetState(target_states, name) = CURRENTLY_MAKING
    /\ Count(history.claims, target_name) = 0


====
